---------------------------- MODULE Spec2Model ----------------------------
(***************************************************************************)
(* HomeActivity (shell/model/homeactivity.py): the shell's metadata for    *)
(* one running activity.  The model follows one HomeActivity object from   *)
(* the end of __init__ to its finalisation: its fields, the GLib timeout   *)
(* source armed by the constructor, the 'launch-timeout' signal, and the   *)
(* outcome (return value or exception) of the last call made on it.        *)
(***************************************************************************)
EXTENDS Integers, FiniteSets, Sequences, TLC

(***************************************************************************)
(* Python values.  Every value is a record with a "kind" field.            *)
(***************************************************************************)
None == [kind |-> "None"]

NoValue == [kind |-> "NoValue"]

IntVal(n) == [kind |-> "int", v |-> n]

BoolVal(b) == [kind |-> "bool", v |-> b]

StrVal(s) == [kind |-> "str", v |-> s]

\* Python truth value of the values that reach `if self._window or self._xid`
\* and `if not window`.
Truthy(v) ==
    CASE v.kind = "None" -> FALSE
      [] v.kind = "int"  -> v.v # 0
      [] v.kind = "bool" -> v.v
      [] OTHER           -> TRUE

\* Top-level windows handed to set_window by the home model.
Windows ==
    { [kind |-> "Window", name |-> "Write",  xid |-> 11],
      [kind |-> "Window", name |-> "Browse", xid |-> 12] }

WindowArgs == Windows \cup {None}

\* Introspection services handed to set_service.
Services ==
    { [kind |-> "Service", shared |-> TRUE],
      [kind |-> "Service", shared |-> FALSE] }

ServiceArgs == Services \cup {None}

ActivityIds == {"act1", "act2"}

\* Colour strings the presence service can record for a shared activity.
ColorStrings == {"#FF0000,#00FF00", "#0000FF,#FFFF00"}

\* XoColor(color_string): the colour object built from a colour string.
XoColor(s) == [kind |-> "XoColor", color |-> s]

\* What pservice.get_activity(id) returns: None, or a shared activity.
PresenceActivities ==
    {None} \cup { [kind |-> "Activity", color |-> c] : c \in ColorStrings }

\* profile.get_color(): the local user's colour, already an XoColor.
ProfileColors == { XoColor("#123456,#654321") }

\* The source id gobject.timeout_add hands back for the launch timer.
TimerId == 1

\* Cap on the count of 'launch-timeout' emissions that is tracked.
MaxEmitted == 3

(***************************************************************************)
(* Outcome of a call: a returned value or a raised exception.              *)
(***************************************************************************)
Return(v) == [exc |-> "none", msg |-> "", val |-> v]

Raise(e, m) == [exc |-> e, msg |-> m, val |-> NoValue]

StillLaunching == Raise("RuntimeError", "Activity is still launching.")

AlreadyLaunched == Raise("RuntimeError", "Activity is already launched!")

WindowInvalid == Raise("ValueError", "window must be valid")

\* Attribute access on None.
NoneAttribute == Raise("AttributeError", "'NoneType' object has no attribute")

Call(op, arg, out) ==
    [op |-> op, arg |-> arg, exc |-> out.exc, msg |-> out.msg, val |-> out.val]

VARIABLES
    window,             \* self._window
    xid,                \* self._xid
    service,            \* self._service
    activity_id,        \* self._activity_id
    launched,           \* self._launched
    launch_timeout_id,  \* self._launch_timeout_id
    sources,            \* ids of the timeout sources attached to the main loop
    emitted,            \* number of 'launch-timeout' emissions so far
    staleRemove,        \* a source_remove was given a non-zero id of no source
    alive,              \* the object has not been finalised
    pservice,           \* presence service: activity id -> shared activity or None
    profileColor,       \* the local user's profile colour
    last                \* the last call made on the object and its outcome

vars ==
    << window, xid, service, activity_id, launched, launch_timeout_id, sources,
       emitted, staleRemove, alive, pservice, profileColor, last >>

fields == << window, xid, service, activity_id, launched >>

timer == << launch_timeout_id, sources, emitted, staleRemove >>

environment == << pservice, profileColor >>

\* The launch timer is still attached to the main loop.
TimerArmed == TimerId \in sources

\* gobject.source_remove(id): detaches the source with that id, if any.
SourceRemove(srcs, id) == srcs \ {id}

\* source_remove called with a non-zero id that names no attached source.
IsStale(srcs, id) == id # 0 /\ id \notin srcs

(***************************************************************************)
(* Getters, as functions of the current state.                             *)
(***************************************************************************)
get_service == Return(service)

get_launched == Return(BoolVal(launched))

get_window ==
    IF ~launched THEN StillLaunching ELSE Return(window)

get_xid ==
    IF ~launched THEN StillLaunching ELSE Return(xid)

get_title ==
    IF ~launched THEN StillLaunching
    ELSE IF window.kind = "None" THEN NoneAttribute
    ELSE Return(StrVal(window.name))

get_shared ==
    IF ~launched THEN StillLaunching
    ELSE IF service.kind = "None" THEN NoneAttribute
    ELSE Return(BoolVal(service.shared))

\* Faulty variant: the presence service is never consulted.
get_icon_color_profile_only == Return(profileColor)

get_icon_color ==
    LET activity == pservice[activity_id]
    IN  IF activity # None
        THEN Return(XoColor(activity.color))
        ELSE Return(profileColor)

(***************************************************************************)
(* State after HomeActivity.__init__(bundle, activity_id).                 *)
(***************************************************************************)
Init ==
    /\ window = None
    /\ xid = None
    /\ service = None
    /\ activity_id \in ActivityIds
    /\ launched = FALSE
    /\ launch_timeout_id = TimerId
    /\ sources = {TimerId}
    /\ emitted = 0
    /\ staleRemove = FALSE
    /\ alive = TRUE
    /\ pservice \in [ActivityIds -> PresenceActivities]
    /\ profileColor \in ProfileColors
    /\ last = Call("__init__", None, Return(None))

(***************************************************************************)
(* _launch_timeout_cb: the main loop dispatches the armed timer.  The      *)
(* callback returns False, so the main loop destroys the source.           *)
(***************************************************************************)
\* Faulty variant: the callback returns True, so the source stays attached.
LaunchTimeoutCbRearm ==
    /\ alive
    /\ TimerArmed
    /\ emitted < MaxEmitted
    /\ launch_timeout_id' = 0
    /\ emitted' = emitted + 1
    /\ sources' = sources
    /\ last' = Call("_launch_timeout_cb", None, Return(BoolVal(TRUE)))
    /\ UNCHANGED << fields, staleRemove, alive, environment >>

\* Faulty variant: the callback does not clear the stored handle.
LaunchTimeoutCbKeepId ==
    /\ alive
    /\ TimerArmed
    /\ emitted < MaxEmitted
    /\ launch_timeout_id' = launch_timeout_id
    /\ emitted' = emitted + 1
    /\ sources' = sources \ {TimerId}
    /\ last' = Call("_launch_timeout_cb", None, Return(BoolVal(FALSE)))
    /\ UNCHANGED << fields, staleRemove, alive, environment >>

\* _launch_timeout_cb (emitted < MaxEmitted only bounds the counter).
LaunchTimeoutCb ==
    /\ alive
    /\ TimerArmed
    /\ emitted < MaxEmitted
    /\ launch_timeout_id' = 0
    /\ emitted' = emitted + 1
    /\ sources' = sources \ {TimerId}
    /\ last' = Call("_launch_timeout_cb", None, Return(BoolVal(FALSE)))
    /\ UNCHANGED << fields, staleRemove, alive, environment >>

(***************************************************************************)
(* set_window(w).  The flag and the timer are updated before the           *)
(* arguments are validated, so they change even when the call raises.      *)
(***************************************************************************)
\* Faulty variant: no 'already launched' check.
SetWindowRebind(w) ==
    /\ alive
    /\ launched' = TRUE
    /\ sources' = SourceRemove(sources, launch_timeout_id)
    /\ staleRemove' = (staleRemove \/ IsStale(sources, launch_timeout_id))
    /\ launch_timeout_id' = 0
    /\ IF ~Truthy(w)
       THEN /\ last' = Call("set_window", w, WindowInvalid)
            /\ UNCHANGED << window, xid >>
       ELSE /\ window' = w
            /\ xid' = IntVal(w.xid)
            /\ last' = Call("set_window", w, Return(None))
    /\ UNCHANGED << service, activity_id, emitted, alive, environment >>

\* Faulty variant: the handle is cleared without source_remove.
SetWindowKeepTimer(w) ==
    /\ alive
    /\ launched' = TRUE
    /\ sources' = sources
    /\ staleRemove' = staleRemove
    /\ launch_timeout_id' = 0
    /\ IF Truthy(window) \/ Truthy(xid)
       THEN /\ last' = Call("set_window", w, AlreadyLaunched)
            /\ UNCHANGED << window, xid >>
       ELSE IF ~Truthy(w)
       THEN /\ last' = Call("set_window", w, WindowInvalid)
            /\ UNCHANGED << window, xid >>
       ELSE /\ window' = w
            /\ xid' = IntVal(w.xid)
            /\ last' = Call("set_window", w, Return(None))
    /\ UNCHANGED << service, activity_id, emitted, alive, environment >>

\* set_window(window)
SetWindow(w) ==
    /\ alive
    /\ launched' = TRUE
    /\ sources' = SourceRemove(sources, launch_timeout_id)
    /\ staleRemove' = (staleRemove \/ IsStale(sources, launch_timeout_id))
    /\ launch_timeout_id' = 0
    /\ IF Truthy(window) \/ Truthy(xid)
       THEN /\ last' = Call("set_window", w, AlreadyLaunched)
            /\ UNCHANGED << window, xid >>
       ELSE IF ~Truthy(w)
       THEN /\ last' = Call("set_window", w, WindowInvalid)
            /\ UNCHANGED << window, xid >>
       ELSE /\ window' = w
            /\ xid' = IntVal(w.xid)
            /\ last' = Call("set_window", w, Return(None))
    /\ UNCHANGED << service, activity_id, emitted, alive, environment >>

\* set_service(s)
SetService(s) ==
    /\ alive
    /\ service' = s
    /\ last' = Call("set_service", s, Return(None))
    /\ UNCHANGED << window, xid, activity_id, launched, timer, alive, environment >>

(***************************************************************************)
(* __del__: the finaliser.  After it the object is gone.                   *)
(***************************************************************************)
Del ==
    /\ alive
    /\ sources' = SourceRemove(sources, launch_timeout_id)
    /\ staleRemove' = (staleRemove \/ IsStale(sources, launch_timeout_id))
    /\ launch_timeout_id' = 0
    /\ alive' = FALSE
    /\ last' = Call("__del__", None, Return(None))
    /\ UNCHANGED << fields, emitted, environment >>

(***************************************************************************)
(* Calls of the getters: they change nothing but the recorded outcome.     *)
(***************************************************************************)
Getter(op, out) ==
    /\ alive
    /\ last' = Call(op, None, out)
    /\ UNCHANGED << fields, timer, alive, environment >>

GetService == Getter("get_service", get_service)

GetLaunched == Getter("get_launched", get_launched)

GetWindow == Getter("get_window", get_window)

GetXid == Getter("get_xid", get_xid)

GetTitle == Getter("get_title", get_title)

GetShared == Getter("get_shared", get_shared)

GetIconColor == Getter("get_icon_color", get_icon_color)

Next ==
    \/ LaunchTimeoutCb
    \/ \E w \in WindowArgs : SetWindow(w)
    \/ \E s \in ServiceArgs : SetService(s)
    \/ Del
    \/ GetService
    \/ GetLaunched
    \/ GetWindow
    \/ GetXid
    \/ GetTitle
    \/ GetShared
    \/ GetIconColor

Spec == Init /\ [][Next]_vars

\* The GLib main loop dispatches a timeout source that stays attached.
FairSpec == Spec /\ WF_vars(LaunchTimeoutCb)

TypeOK ==
    /\ window \in WindowArgs
    /\ xid \in {None} \cup { IntVal(w.xid) : w \in Windows }
    /\ service \in ServiceArgs
    /\ activity_id \in ActivityIds
    /\ launched \in BOOLEAN
    /\ launch_timeout_id \in {0, TimerId}
    /\ sources \subseteq {TimerId}
    /\ emitted \in 0..MaxEmitted
    /\ staleRemove \in BOOLEAN
    /\ alive \in BOOLEAN
    /\ pservice \in [ActivityIds -> PresenceActivities]
    /\ profileColor \in ProfileColors

(***************************************************************************)
(* Properties.                                                             *)
(***************************************************************************)

\* Some call of set_window, with any argument, is this step.
SetWindowStep == \E w \in WindowArgs : SetWindow(w)

\* C1: window binding happens at most once: once a window is bound, every
\* later set_window call raises RuntimeError, and no later step of any kind
\* changes the bound window or its xid.
C1_BindOnce ==
    [][ window # None =>
          /\ window' = window
          /\ xid' = xid
          /\ (SetWindowStep =>
                /\ last'.op = "set_window"
                /\ last'.exc = "RuntimeError"
                /\ last'.val = NoValue) ]_vars

\* C1 witness: a set_window call on a bound activity has raised RuntimeError.
C1_Witness ==
    /\ window \in Windows
    /\ xid = IntVal(window.xid)
    /\ last.op = "set_window"
    /\ last.exc = "RuntimeError"

\* C2: while no window has been bound, get_window, get_title, get_xid and
\* get_shared each raise the 'still launching' RuntimeError and return no
\* value.
C2_GettersFailBeforeBinding ==
    window = None =>
        /\ get_window = StillLaunching
        /\ get_title = StillLaunching
        /\ get_xid = StillLaunching
        /\ get_shared = StillLaunching

\* C3: if the object stays alive and no window is ever bound, 'launch-timeout'
\* is eventually emitted (the main loop dispatching the timer fairly).
C3_TimeoutEventuallyFires ==
    ([](alive /\ window = None)) => <>(emitted > 0)

\* C4: 'launch-timeout' is emitted at most once over the object's lifetime.
C4_EmittedAtMostOnce == emitted <= 1

\* C4 witness: the timeout has fired and the activity went on to bind its
\* window, so the timer had every later chance to fire again.
C4_Witness ==
    /\ emitted = 1
    /\ window \in Windows
    /\ ~TimerArmed

\* C5: a set_window that succeeds while the timer is pending removes the
\* timer, and from then on 'launch-timeout' is never emitted.
C5_BindingCancelsTimer ==
    [][ /\ (window = None /\ window' # None /\ TimerArmed) =>
              (~TimerArmed' /\ emitted' = 0)
        /\ (window # None => emitted' = emitted) ]_vars

\* C5 witness: a window was bound before any timeout, and the timer is gone.
C5_Witness ==
    /\ last.op = "set_window"
    /\ last.exc = "none"
    /\ window \in Windows
    /\ emitted = 0
    /\ ~TimerArmed
    /\ alive

\* C6: the launched flag is True if and only if a window is stored.
C6_LaunchedIffWindow == launched <=> (window # None)

\* The colour get_icon_color is to return: the presence service's colour for
\* this activity id when it has an entry, the profile colour when it has none.
ExpectedIconColor ==
    IF pservice[activity_id] \in PresenceActivities \ {None}
    THEN [kind |-> "XoColor", color |-> pservice[activity_id].color]
    ELSE profileColor

\* C7: get_icon_color returns the presence service's colour for this
\* activity_id when there is an entry and the profile colour otherwise,
\* whatever the launched flag, window, service and timer are, and the call
\* changes none of them.
C7_IconColor ==
    [][ GetIconColor =>
          /\ last'.exc = "none"
          /\ last'.val = ExpectedIconColor
          /\ UNCHANGED << fields, timer, alive, environment >> ]_vars

\* C7 witness: get_icon_color has answered from the presence service on a
\* launched activity whose profile colour differs from the answer.
C7_Witness ==
    /\ last.op = "get_icon_color"
    /\ pservice[activity_id] # None
    /\ last.val = XoColor(pservice[activity_id].color)
    /\ last.val # profileColor
    /\ launched

\* C8: set_window with an invalid window on an activity with no bound window
\* raises ValueError and leaves the launched flag, the window, the xid and
\* the launch timer as they were.
C8_RejectedSetWindowChangesNothing ==
    [][ (window = None /\ xid = None /\ SetWindow(None)) =>
          /\ last'.exc = "ValueError"
          /\ launched' = launched
          /\ window' = window
          /\ xid' = xid
          /\ sources' = sources
          /\ launch_timeout_id' = launch_timeout_id ]_vars

\* C9: whenever the launched flag is True, get_window, get_xid, get_title and
\* get_shared return a value without raising: the bound window, its xid, its
\* name and the service's shared state.
C9_GettersSucceedWhenLaunched ==
    launched =>
        /\ get_window.exc = "none" /\ get_window.val = window
        /\ get_xid.exc = "none" /\ get_xid.val = xid
        /\ get_title.exc = "none"
        /\ get_shared.exc = "none"

\* C10: the stored handle is non-zero exactly while the launch timer is
\* armed, it is zero once the flag is set or the timeout was emitted, and no
\* source_remove was ever given a stale non-zero handle.
C10_HandleTracksTimer ==
    /\ (launch_timeout_id # 0) <=> TimerArmed
    /\ (launched \/ emitted > 0) => launch_timeout_id = 0
    /\ ~staleRemove

\* C10 witness: set_window was called after the timeout had fired, so its
\* source_remove ran on the handle the callback left behind.
C10_Witness ==
    /\ emitted = 1
    /\ launched
    /\ last.op = "set_window"
    /\ launch_timeout_id = 0


=============================================================================
